---- MODULE Spec2Model ----
(***************************************************************************)
(* Model of analyze.py: main() reads the views/clones time series          *)
(* fragments and the top-referrer snapshots of a CSV directory, reconciles *)
(* the fragments, ranks the referrers, and writes a Markdown report.       *)
(*                                                                         *)
(* A pandas DataFrame is a record [columns, rows]; a cell is <<v>> for the *)
(* value v and <<>> for NaN (unset).  Timestamps are positive integers.    *)
(***************************************************************************)
EXTENDS Integers, Sequences, FiniteSets, TLC

VARIABLES
    pc,                 \* position of main() in the program
    err,                \* the error that ended the process and where it was raised
    csvpaths,           \* number of globbed paths the read loop has not visited yet
    dfs,                \* list of DataFrames loaded by the running analyse_* function
    loaded,             \* ghost: dfs as it was when the read loop finished
    column_names_seen,  \* set of column names seen by the read loop so far
    df_agg,             \* the reconciled series (rows sorted by time)
    referrers,          \* the set of all referrer names seen
    referrer_dfs,       \* dict referrer -> raw time series
    top_n_rnames,       \* the selected referrer names, best first
    df_top_cu,          \* the aligned top-N table
    df_melted,          \* the long form of df_top_cu handed to the chart
    MD_REPORT,          \* sections written to the in-memory Markdown document
    JS_FOOTER_LINES,    \* chart ids embedded by the report footer
    report_file         \* sections of the written report file, <<>> while none

vars == <<pc, err, csvpaths, dfs, loaded, column_names_seen, df_agg, referrers,
          referrer_dfs, top_n_rnames, df_top_cu, df_melted, MD_REPORT,
          JS_FOOTER_LINES, report_file>>

-----------------------------------------------------------------------------
(* Bounds of the model *)

MaxFiles == 2       \* CSV files discovered per kind
MaxRows == 3        \* rows over all fragment files of a run
MaxTime == 2        \* timestamps are 1..MaxTime
MaxSum == 2         \* the counter values of all fragment rows of a run sum to at most MaxSum

MaxRefRows == 6     \* rows over all referrer snapshot files of a run
MaxCount == 2       \* count_unique and count of a snapshot row are 1..MaxCount

Times == 1..MaxTime

-----------------------------------------------------------------------------
(* Cells and small helpers *)

NaN == <<>>

Cell(v) == <<v>>

IsSet(cell) == cell # NaN

Value(cell) == cell[1]

RECURSIVE SetMax(_)
SetMax(S) ==
    LET x == CHOOSE y \in S : TRUE
    IN  IF S = {x} THEN x
        ELSE LET m == SetMax(S \ {x}) IN IF x > m THEN x ELSE m

RECURSIVE Flatten(_)
Flatten(seqs) ==
    IF seqs = <<>> THEN <<>> ELSE Head(seqs) \o Flatten(Tail(seqs))

RECURSIVE UnionAll(_)
UnionAll(sets) ==
    IF sets = <<>> THEN {} ELSE Head(sets) \cup UnionAll(Tail(sets))

\* The elements of the finite set of integers T in ascending order.
RECURSIVE Ascending(_)
Ascending(T) ==
    IF T = {} THEN <<>>
    ELSE LET m == SetMax(T) IN Append(Ascending(T \ {m}), m)

-----------------------------------------------------------------------------
(* Views/clones fragments: analyse_view_clones_ts_fragments *)

ViewsColumns == {"views_unique", "views_total"}
ClonesColumns == {"clones_unique", "clones_total"}

\* Column sets a fragment file may have besides its index column time_iso8601.
FragColumnSets == {{}, ViewsColumns, ViewsColumns \cup ClonesColumns}

\* The functions from the finite set X to the naturals whose values sum to at
\* most b.
RECURSIVE Distribute(_, _)
Distribute(X, b) ==
    IF X = {} THEN {<<>>}
    ELSE LET x == CHOOSE y \in X : TRUE
         IN  UNION { { (x :> v) @@ g : g \in Distribute(X \ {x}, b - v) } :
                     v \in 0..b }

\* pd.read_csv(p, index_col=["time_iso8601"]): the files of at most k rows with
\* the columns cols and counter values summing to at most b, one row per
\* timestamp, in chronological order.
FragmentFiles(cols, k, b) ==
    UNION { { [columns |-> cols,
               rows |-> LET ts == Ascending(T)
                        IN  [i \in 1..Len(ts) |->
                                [time |-> ts[i],
                                 vals |-> [c \in cols |-> Cell(f[<<ts[i], c>>])]]]] :
              f \in Distribute(T \X cols, b) } :
            T \in {S \in SUBSET Times : Cardinality(S) <= k} }

RowCount(frames) == Len(Flatten([i \in DOMAIN frames |-> frames[i].rows]))

RECURSIVE SeqSum(_)
SeqSum(s) == IF s = <<>> THEN 0 ELSE Head(s) + SeqSum(Tail(s))

RECURSIVE SetSum(_, _)
SetSum(f, X) ==
    IF X = {} THEN 0
    ELSE LET x == CHOOSE y \in X : TRUE IN f[x] + SetSum(f, X \ {x})

\* The sum of the counter values of all rows of the frames.
ValueSum(frames) ==
    LET rows == Flatten([i \in DOMAIN frames |-> frames[i].rows])
    IN  SeqSum([j \in DOMAIN rows |->
                  SetSum([c \in DOMAIN rows[j].vals |-> Value(rows[j].vals[c])],
                         DOMAIN rows[j].vals)])

\* The schema check of the read loops: the file is refused when columns were
\* seen before and its own differ from them.
SchemaRefused(seen, cols) == seen # {} /\ cols # seen

\* A concat that accepts the empty list.
ConcatNeverRaises(frames) == FALSE

\* pd.concat(objs) raises ValueError("No objects to concatenate") for an empty
\* list.
ConcatRaises(frames) == frames = <<>>

\* pd.concat(dfs): the rows of all frames in list order over the union of the
\* columns, NaN where a frame lacks a column.
Concat(frames) ==
    LET cols == UnionAll([i \in DOMAIN frames |-> frames[i].columns])
        widen(df) == [j \in DOMAIN df.rows |->
                        [time |-> df.rows[j].time,
                         vals |-> [c \in cols |->
                                     IF c \in df.columns THEN df.rows[j].vals[c]
                                     ELSE NaN]]]
    IN  [columns |-> cols,
         rows |-> Flatten([i \in DOMAIN frames |-> widen(frames[i])])]

\* Insert row r into the time-sorted sequence s, after the rows of equal time.
RECURSIVE InsertByTime(_, _)
InsertByTime(s, r) ==
    IF s = <<>> THEN <<r>>
    ELSE IF r.time < Head(s).time THEN <<r>> \o s
    ELSE <<Head(s)>> \o InsertByTime(Tail(s), r)

\* DataFrame.sort_index(): rows ascending by their time index.
RECURSIVE SortIndex(_)
SortIndex(rows) ==
    IF rows = <<>> THEN <<>>
    ELSE InsertByTime(SortIndex(SubSeq(rows, 1, Len(rows) - 1)), rows[Len(rows)])

\* groupby(index).first(): the first value of the group that is set.
CellFirst(a, b) == IF IsSet(a) THEN a ELSE b

\* The aggregation of two cells of one group: the larger value, NaN skipped.
CellMax(a, b) ==
    IF IsSet(a) /\ IsSet(b)
      THEN (IF Value(a) >= Value(b) THEN a ELSE b)
    ELSE IF IsSet(a) THEN a ELSE b

\* Column c aggregated over the rows of the group of time t.
RECURSIVE GroupMax(_, _, _)
GroupMax(rows, t, c) ==
    IF rows = <<>> THEN NaN
    ELSE IF Head(rows).time = t
      THEN CellMax(Head(rows).vals[c], GroupMax(Tail(rows), t, c))
    ELSE GroupMax(Tail(rows), t, c)

\* No aggregation at all: the sorted concatenation is taken as the series.
NoGroupBy(rows, cols) == rows

\* The number of rows of the group of time t that set column c.
RECURSIVE GroupCount(_, _, _)
GroupCount(rows, t, c) ==
    IF rows = <<>> THEN 0
    ELSE (IF Head(rows).time = t /\ IsSet(Head(rows).vals[c]) THEN 1 ELSE 0)
         + GroupCount(Tail(rows), t, c)

\* groupby(index).count() in the place of groupby(index).max().
GroupByCount(rows, cols) ==
    LET keys == Ascending({ rows[j].time : j \in DOMAIN rows })
    IN  [i \in DOMAIN keys |->
           [time |-> keys[i],
            vals |-> [c \in cols |-> Cell(GroupCount(rows, keys[i], c))]]]

\* groupby(index).max(): one output row per distinct time, the group keys
\* sorted, each column aggregated over the rows of its group.
GroupByMax(rows, cols) ==
    LET keys == Ascending({ rows[j].time : j \in DOMAIN rows })
    IN  [i \in DOMAIN keys |->
           [time |-> keys[i],
            vals |-> [c \in cols |-> GroupMax(rows, keys[i], c)]]]

\* Lines 375-394: concat, sort_index, groupby(index).max().
Reconcile(frames) ==
    LET dfa == Concat(frames)
    IN  GroupByMax(SortIndex(dfa.rows), dfa.columns)

-----------------------------------------------------------------------------
(* Referrer snapshots: analyse_referrer_snapshots *)

top_n == 5

\* The referrer names of the model.  The code only tests names for equality, so
\* the files of a run introduce them in this order: a file lists names of
\* earlier files and the next unused names, its rows in this order too.
RefNames == <<"A", "B", "C", "D", "E", "F">>

NameIndex(r) == CHOOSE i \in DOMAIN RefNames : RefNames[i] = r

FullColumns == {"referrer", "count", "count_unique"}

\* Column sets a snapshot file may have.
RefColumnSets == {FullColumns, {"referrers", "count", "count_unique"},
                  {"referrer", "count"}}

\* df.rename(columns={"referrers": "referrer"}, inplace=True)
Rename(cols) ==
    { IF c = "referrers" THEN "referrer" ELSE c : c \in cols }

NamesOf(frames) ==
    LET rows == Flatten([i \in DOMAIN frames |-> frames[i].rows])
    IN  { rows[j]["referrer"] : j \in DOMAIN rows }

\* pd.read_csv(p) followed by the rename and the snapshot_time attribute: the
\* snapshot files of 1 to k rows taken at time t, given the names of the files
\* read before.  A row has one value per column; count is at least count_unique
\* and nothing reads it, so the model gives both the same value.
SnapshotFiles(cols, t, k, old) ==
    LET n == Cardinality(old)
        fresh(j) == { RefNames[i] : i \in (n + 1)..(n + j) }
        names == UNION { { O \cup fresh(j) : O \in SUBSET old } :
                         j \in 0..(Len(RefNames) - n) }
        ordered(R) == LET idx == Ascending({ NameIndex(r) : r \in R })
                      IN  [i \in DOMAIN idx |-> RefNames[idx[i]]]
    IN  UNION { { [columns |-> Rename(cols),
                   snapshot_time |-> t,
                   rows |-> LET rs == ordered(R)
                            IN  [i \in DOMAIN rs |->
                                   [c \in Rename(cols) |->
                                      IF c = "referrer" THEN rs[i] ELSE f[rs[i]]]]] :
                  f \in [R -> 1..MaxCount] } :
                R \in { Q \in names : Cardinality(Q) >= 1 /\ Cardinality(Q) <= k } }

\* The time column added to a selection of the columns that leaves count out.
WithTimeDroppingCount(df) ==
    [df EXCEPT !.columns = (df.columns \ {"count"}) \cup {"time"},
               !.rows = [j \in DOMAIN df.rows |->
                           [c \in (df.columns \ {"count"}) \cup {"time"} |->
                              IF c = "time" THEN df.snapshot_time
                              ELSE df.rows[j][c]]]]

\* Lines 185-186: df["time"] = df.attrs["snapshot_time"], on the frame itself.
WithTime(df) ==
    [df EXCEPT !.columns = df.columns \cup {"time"},
               !.rows = [j \in DOMAIN df.rows |->
                           [c \in df.columns \cup {"time"} |->
                              IF c = "time" THEN df.snapshot_time
                              ELSE df.rows[j][c]]]]

\* pd.concat(dfs) of the snapshot frames, which share their columns.
ConcatRows(frames) == Flatten([i \in DOMAIN frames |-> frames[i].rows])

RECURSIVE SelectReferrer(_, _)
SelectReferrer(s, r) ==
    IF s = <<>> THEN <<>>
    ELSE IF Head(s)["referrer"] = r THEN <<Head(s)>> \o SelectReferrer(Tail(s), r)
    ELSE SelectReferrer(Tail(s), r)

\* The rows of s whose values no earlier row of s has: drop_duplicates() over
\* the columns other than time.
RECURSIVE DropDuplicates(_)
DropDuplicates(s) ==
    IF s = <<>> THEN <<>>
    ELSE LET front == SubSeq(s, 1, Len(s) - 1)
             last == s[Len(s)]
             same(a, b) == \A c \in DOMAIN a \ {"time"} : a[c] = b[c]
         IN  IF \E k \in DOMAIN front : same(front[k], last)
               THEN DropDuplicates(front)
             ELSE Append(DropDuplicates(front), last)

\* A raw series that keeps one row per distinct values of a referrer.
RawSeriesDeduplicated(dfa, r) == DropDuplicates(SortIndex(SelectReferrer(dfa, r)))

\* Lines 196-201: the rows of dfa naming referrer r, the time column made the
\* index, sorted by it.
RawSeries(dfa, r) == SortIndex(SelectReferrer(dfa, r))

\* Lines 192-203: the dict referrer -> raw time series, filled name by name.
RECURSIVE SeriesMap(_, _)
SeriesMap(names, dfa) ==
    IF names = {} THEN <<>>
    ELSE LET r == CHOOSE x \in names : TRUE
         IN  (r :> RawSeries(dfa, r)) @@ SeriesMap(names \ {r}, dfa)

\* Lines 223-225: rdf["count_unique"].max()
MaxCountUnique(rdf) == SetMax({ rdf[j]["count_unique"] : j \in DOMAIN rdf })

\* Lines 223-225: the dict referrer -> maximum count_unique, filled name by
\* name.
RECURSIVE MaxCuMap(_, _)
MaxCuMap(names, series) ==
    IF names = {} THEN <<>>
    ELSE LET r == CHOOSE x \in names : TRUE
         IN  (r :> MaxCountUnique(series[r])) @@ MaxCuMap(names \ {r}, series)

\* The insertion of a sort without reverse=True: ascending by key.
RECURSIVE InsertAscending(_, _, _)
InsertAscending(s, r, key) ==
    IF s = <<>> THEN <<r>>
    ELSE IF key[r] < key[Head(s)] THEN <<r>> \o s
    ELSE <<Head(s)>> \o InsertAscending(Tail(s), r, key)

\* Insert name r into s, kept descending by key, after the names of equal key.
RECURSIVE InsertDescending(_, _, _)
InsertDescending(s, r, key) ==
    IF s = <<>> THEN <<r>>
    ELSE IF key[r] > key[Head(s)] THEN <<r>> \o s
    ELSE <<Head(s)>> \o InsertDescending(Tail(s), r, key)

\* sorted(ref_max_cu_map.items(), key=lambda i: i[1], reverse=True): a stable
\* sort of the names, in dict order, descending by key.
RECURSIVE SortedDescending(_, _)
SortedDescending(order, key) ==
    IF order = <<>> THEN <<>>
    ELSE InsertDescending(SortedDescending(SubSeq(order, 1, Len(order) - 1), key),
                          order[Len(order)], key)

\* list(sorted_dict.keys())[:top_n]
TopN(order, key) ==
    LET sorted == SortedDescending(order, key)
    IN  SubSeq(sorted, 1, IF Len(sorted) < top_n THEN Len(sorted) ELSE top_n)

\* The iteration orders of a set of strings: every order of its elements.
Orders(S) ==
    LET d == Cardinality(S)
        names == CHOOSE q \in [1..d -> S] : \A r \in S : \E i \in 1..d : q[i] = r
    IN  { [i \in 1..d |-> names[p[i]]] : p \in Permutations(1..d) }

\* The cell of a table zero-filled as by fillna(0).
SeriesAtZeroFilled(rdf, t) ==
    IF \E j \in DOMAIN rdf : rdf[j]["time"] = t
      THEN Cell((rdf[CHOOSE j \in DOMAIN rdf : rdf[j]["time"] = t])["count_unique"])
    ELSE Cell(0)

\* The cell of series rdf at index t, NaN when it has no row there.
SeriesAt(rdf, t) ==
    IF \E j \in DOMAIN rdf : rdf[j]["time"] = t
      THEN Cell((rdf[CHOOSE j \in DOMAIN rdf : rdf[j]["time"] = t])["count_unique"])
    ELSE NaN

\* The index a column assignment gives the frame: the index of the assigned
\* series when the frame is still empty, the frame's own index afterwards.
TableIndex(names, series) ==
    IF names = <<>> THEN <<>>
    ELSE LET first == series[names[1]]
         IN  [j \in DOMAIN first |-> first[j]["time"]]

\* Lines 244-248: df_top_cu[rname] = rdf["count_unique"] for each selected name.
TopTable(names, series) ==
    LET index == TableIndex(names, series)
    IN  [index |-> index,
         columns |-> names,
         cells |-> [i \in DOMAIN index |->
                      [r \in { names[k] : k \in DOMAIN names } |->
                         SeriesAt(series[r], index[i])]]]

\* Lines 264-266: melt(ignore_index=False).reset_index(): one row per column and
\* index entry, column after column.
Melt(table) ==
    Flatten([k \in DOMAIN table.columns |->
               [i \in DOMAIN table.index |->
                  [time |-> table.index[i],
                   referrer |-> table.columns[k],
                   count_unique |-> table.cells[i][table.columns[k]]]]])

-----------------------------------------------------------------------------
(* main() *)

Init ==
    /\ pc = "main"
    /\ err = [error |-> "none", at |-> "none"]
    /\ csvpaths = 0
    /\ dfs = <<>>
    /\ loaded = <<>>
    /\ column_names_seen = {}
    /\ df_agg = <<>>
    /\ referrers = {}
    /\ referrer_dfs = <<>>
    /\ top_n_rnames = <<>>
    /\ df_top_cu = <<>>
    /\ df_melted = <<>>
    /\ MD_REPORT = <<>>
    /\ JS_FOOTER_LINES = <<>>
    /\ report_file = <<>>

\* The process ends: sys.exit(1) or an uncaught exception.  Its memory is gone.
Die(how) ==
    /\ pc' = "dead"
    /\ err' = [error |-> how, at |-> pc]
    /\ csvpaths' = 0
    /\ dfs' = <<>>
    /\ loaded' = <<>>
    /\ column_names_seen' = {}
    /\ df_agg' = <<>>
    /\ referrers' = {}
    /\ referrer_dfs' = <<>>
    /\ top_n_rnames' = <<>>
    /\ df_top_cu' = <<>>
    /\ df_melted' = <<>>
    /\ MD_REPORT' = <<>>
    /\ JS_FOOTER_LINES' = <<>>
    /\ UNCHANGED report_file

\* parse_args() and write_report_preamble(): the output directory is created
\* unless its path names a file that is no directory.
ParseArgs ==
    /\ pc = "main"
    /\ \E isdir \in BOOLEAN :
         IF isdir
           THEN /\ pc' = "vc_glob"
                /\ MD_REPORT' = <<"preamble">>
                /\ UNCHANGED <<err, csvpaths, dfs, loaded, column_names_seen,
                               df_agg, referrers, referrer_dfs, top_n_rnames,
                               df_top_cu, df_melted, JS_FOOTER_LINES, report_file>>
         ELSE Die("exit")

\* glob.glob("*views_clones*.csv")
VcGlob ==
    /\ pc = "vc_glob"
    /\ \E n \in 0..MaxFiles : csvpaths' = n
    /\ pc' = "vc_read"
    /\ dfs' = <<>>
    /\ column_names_seen' = {}
    /\ UNCHANGED <<err, loaded, df_agg, referrers, referrer_dfs, top_n_rnames,
                   df_top_cu, df_melted, MD_REPORT, JS_FOOTER_LINES, report_file>>

\* One iteration of the read loop, lines 353-367.
VcRead ==
    /\ pc = "vc_read"
    /\ csvpaths > 0
    /\ \E cols \in FragColumnSets :
       \E df \in FragmentFiles(cols, MaxRows - RowCount(dfs), MaxSum - ValueSum(dfs)) :
         IF SchemaRefused(column_names_seen, df.columns)
           THEN Die("exit")
         ELSE /\ column_names_seen' = column_names_seen \cup df.columns
              /\ dfs' = Append(dfs, df)
              /\ csvpaths' = csvpaths - 1
              /\ UNCHANGED <<pc, err, loaded, df_agg, referrers, referrer_dfs,
                             top_n_rnames, df_top_cu, df_melted, MD_REPORT,
                             JS_FOOTER_LINES, report_file>>

\* Lines 375-394, after the read loop.  pd.concat raises ValueError on an
\* empty list.
VcAggregate ==
    /\ pc = "vc_read"
    /\ csvpaths = 0
    /\ IF ConcatRaises(dfs)
         THEN Die("ValueError: No objects to concatenate")
       ELSE /\ df_agg' = Reconcile(dfs)
            /\ loaded' = dfs
            /\ pc' = "vc_charts"
            /\ UNCHANGED <<err, csvpaths, dfs, column_names_seen, referrers,
                           referrer_dfs, top_n_rnames, df_top_cu, df_melted,
                           MD_REPORT, JS_FOOTER_LINES, report_file>>

\* Lines 414-573: the views and clones frames (drop raises KeyError for a
\* column that is not there), the four charts, the report sections.
VcCharts ==
    /\ pc = "vc_charts"
    /\ IF ~ (ViewsColumns \cup ClonesColumns \subseteq Concat(dfs).columns)
         THEN Die("KeyError")
       ELSE /\ MD_REPORT' = MD_REPORT \o <<"Views", "Clones">>
            /\ JS_FOOTER_LINES' = JS_FOOTER_LINES \o
                   <<"chart_views_unique", "chart_views_total",
                     "chart_clones_unique", "chart_clones_total">>
            /\ pc' = "ref_glob"
            /\ dfs' = <<>>
            /\ loaded' = <<>>
            /\ column_names_seen' = {}
            /\ df_agg' = <<>>
            /\ UNCHANGED <<err, csvpaths, referrers, referrer_dfs, top_n_rnames,
                           df_top_cu, df_melted, report_file>>

\* glob.glob("*_top_referrers_snapshot.csv")
RefGlob ==
    /\ pc = "ref_glob"
    /\ \E n \in 0..MaxFiles : csvpaths' = n
    /\ pc' = "ref_read"
    /\ dfs' = <<>>
    /\ column_names_seen' = {}
    /\ UNCHANGED <<err, loaded, df_agg, referrers, referrer_dfs, top_n_rnames,
                   df_top_cu, df_melted, MD_REPORT, JS_FOOTER_LINES, report_file>>

\* One iteration of the read loop, lines 149-172.  strptime raises ValueError
\* for a file name whose prefix is no %Y-%m-%d_%H%M%S time; two files of one
\* directory never carry the same time.
RefRead ==
    /\ pc = "ref_read"
    /\ csvpaths > 0
    /\ \/ Die("ValueError: time data does not match format")
       \/ \E t \in Times \ { dfs[i].snapshot_time : i \in DOMAIN dfs } :
          \E cols \in RefColumnSets :
          \E df \in SnapshotFiles(cols, t, MaxRefRows - RowCount(dfs), NamesOf(dfs)) :
            IF SchemaRefused(column_names_seen, df.columns)
              THEN Die("exit")
            ELSE /\ column_names_seen' = column_names_seen \cup df.columns
                 /\ dfs' = Append(dfs, df)
                 /\ csvpaths' = csvpaths - 1
                 /\ UNCHANGED <<pc, err, loaded, df_agg, referrers, referrer_dfs,
                                top_n_rnames, df_top_cu, df_melted, MD_REPORT,
                                JS_FOOTER_LINES, report_file>>

\* Lines 174-266, after the read loop.  pd.concat raises ValueError on an empty
\* list and rdf["count_unique"] raises KeyError when the files have no such
\* column.  The set of names is iterated in an order of the interpreter's choice.
RefAnalyse ==
    /\ pc = "ref_read"
    /\ csvpaths = 0
    /\ IF ConcatRaises(dfs)
         THEN Die("ValueError: No objects to concatenate")
       ELSE IF \E i \in DOMAIN dfs : "count_unique" \notin dfs[i].columns
         THEN Die("KeyError")
       ELSE LET tagged == [i \in DOMAIN dfs |-> WithTime(dfs[i])]
                dfa == ConcatRows(tagged)
                names == NamesOf(dfs)
                series == SeriesMap(names, dfa)
                ref_max_cu_map == MaxCuMap(names, series)
            IN  /\ \E selected \in { TopN(order, ref_max_cu_map) : order \in Orders(names) } :
                     /\ top_n_rnames' = selected
                     /\ df_top_cu' = TopTable(selected, series)
                     /\ df_melted' = Melt(TopTable(selected, series))
                /\ loaded' = dfs
                /\ dfs' = tagged
                /\ referrers' = names
                /\ referrer_dfs' = series
                /\ pc' = "ref_chart"
                /\ UNCHANGED <<err, csvpaths, column_names_seen, df_agg, MD_REPORT,
                               JS_FOOTER_LINES, report_file>>

\* Lines 269-320: the chart of df_melted and the report section.
RefChart ==
    /\ pc = "ref_chart"
    /\ MD_REPORT' = Append(MD_REPORT, "Referrers")
    /\ JS_FOOTER_LINES' = Append(JS_FOOTER_LINES, "chart_referrers_top_n_alltime")
    /\ pc' = "footer"
    /\ dfs' = <<>>
    /\ loaded' = <<>>
    /\ column_names_seen' = {}
    /\ referrers' = {}
    /\ referrer_dfs' = <<>>
    /\ top_n_rnames' = <<>>
    /\ df_top_cu' = <<>>
    /\ df_melted' = <<>>
    /\ UNCHANGED <<err, csvpaths, df_agg, report_file>>

\* write_report_footer() and the write of the report file, lines 77-82.
WriteReport ==
    /\ pc = "footer"
    /\ report_file' = Append(MD_REPORT, "footer")
    /\ MD_REPORT' = Append(MD_REPORT, "footer")
    /\ pc' = "done"
    /\ UNCHANGED <<err, csvpaths, dfs, loaded, column_names_seen, df_agg, referrers,
                   referrer_dfs, top_n_rnames, df_top_cu, df_melted, JS_FOOTER_LINES>>

Next ==
    \/ ParseArgs
    \/ VcGlob
    \/ VcRead
    \/ VcAggregate
    \/ VcCharts
    \/ RefGlob
    \/ RefRead
    \/ RefAnalyse
    \/ RefChart
    \/ WriteReport

Spec == Init /\ [][Next]_vars

\* main() up to the return of analyse_view_clones_ts_fragments.
NextFragments ==
    \/ ParseArgs
    \/ VcGlob
    \/ VcRead
    \/ VcAggregate
    \/ VcCharts

SpecFragments == Init /\ [][NextFragments]_vars

-----------------------------------------------------------------------------
(* Properties of the reconciled series *)

AllRows(frames) == Flatten([i \in DOMAIN frames |-> frames[i].rows])

\* C1: with the reconciled series computed, for every fragment row and every
\* counter of it the series has, at the row's timestamp, a value no smaller
\* than the row's; and every value of the series is the value of some fragment
\* row of that timestamp, a counter being unset only when no row of the
\* timestamp has it.  So each counter holds, independently of the others, the
\* maximum over the rows of its timestamp.
C1_MaxPerTimestamp ==
    pc = "vc_charts" =>
      LET rows == AllRows(dfs)
          cols == UnionAll([i \in DOMAIN dfs |-> dfs[i].columns])
      IN  /\ \A j \in DOMAIN rows : \A c \in DOMAIN rows[j].vals :
                \E k \in DOMAIN df_agg :
                  /\ df_agg[k].time = rows[j].time
                  /\ IsSet(df_agg[k].vals[c])
                  /\ Value(df_agg[k].vals[c]) >= Value(rows[j].vals[c])
          /\ \A k \in DOMAIN df_agg : \A c \in cols :
                IF \E j \in DOMAIN rows :
                     rows[j].time = df_agg[k].time /\ c \in DOMAIN rows[j].vals
                  THEN \E j \in DOMAIN rows :
                         /\ rows[j].time = df_agg[k].time
                         /\ c \in DOMAIN rows[j].vals
                         /\ rows[j].vals[c] = df_agg[k].vals[c]
                ELSE df_agg[k].vals[c] = NaN

\* Two fragments disagree at a shared timestamp in two counters, in opposite
\* directions, a third row has a timestamp of its own, and the series holds
\* the larger value of each counter and the lone row unchanged.
C1_Witness ==
    /\ pc = "vc_charts"
    /\ Len(dfs) = 2
    /\ \E a \in DOMAIN dfs[1].rows, b \in DOMAIN dfs[2].rows, k \in DOMAIN df_agg :
         /\ dfs[1].rows[a].time = dfs[2].rows[b].time
         /\ df_agg[k].time = dfs[1].rows[a].time
         /\ dfs[1].columns = ViewsColumns \cup ClonesColumns
         /\ dfs[2].columns = ViewsColumns \cup ClonesColumns
         /\ Value(dfs[1].rows[a].vals["clones_total"]) >
              Value(dfs[2].rows[b].vals["clones_total"])
         /\ Value(dfs[1].rows[a].vals["views_total"]) <
              Value(dfs[2].rows[b].vals["views_total"])
         /\ df_agg[k].vals["clones_total"] = dfs[1].rows[a].vals["clones_total"]
         /\ df_agg[k].vals["views_total"] = dfs[2].rows[b].vals["views_total"]
    /\ \E j \in DOMAIN AllRows(dfs), k \in DOMAIN df_agg :
         /\ \A i \in DOMAIN AllRows(dfs) :
              AllRows(dfs)[i].time = AllRows(dfs)[j].time => i = j
         /\ df_agg[k] = AllRows(dfs)[j]


\* C2: the reconciled series has exactly the timestamps of the fragment rows,
\* each once, in strictly increasing order, whatever the order of the
\* fragments and however they overlap.
C2_OneEntryPerTimestampAscending ==
    pc = "vc_charts" =>
      /\ { df_agg[k].time : k \in DOMAIN df_agg } =
           { AllRows(dfs)[j].time : j \in DOMAIN AllRows(dfs) }
      /\ \A k \in 1..(Len(df_agg) - 1) : df_agg[k].time < df_agg[k + 1].time

\* The fragment discovered first holds the later timestamp, the second one
\* overlaps it and adds an earlier one: three rows reconcile to two.
C2_Witness ==
    /\ pc = "vc_charts"
    /\ Len(dfs) = 2
    /\ Len(dfs[1].rows) = 1
    /\ Len(dfs[2].rows) = 2
    /\ dfs[2].rows[1].time < dfs[1].rows[1].time
    /\ dfs[2].rows[2].time = dfs[1].rows[1].time
    /\ Len(df_agg) = 2

\* The reconciled series taken as the only fragment of a further run.
AsFragment(series, cols) == [columns |-> cols, rows |-> series]

\* C8: reconciling the reconciled series again, as a single fragment, yields
\* the same series.
C8_ReconcileIdempotent ==
    pc = "vc_charts" =>
      Reconcile(<<AsFragment(df_agg, Concat(dfs).columns)>>) = df_agg

\* Two fragments that disagree at a shared timestamp were merged, and the
\* series has a second timestamp.
C8_Witness ==
    /\ pc = "vc_charts"
    /\ Len(dfs) = 2
    /\ Len(df_agg) = 2
    /\ RowCount(dfs) = 3
    /\ \E a \in DOMAIN dfs[1].rows, b \in DOMAIN dfs[2].rows :
         /\ dfs[1].rows[a].time = dfs[2].rows[b].time
         /\ dfs[1].rows[a].vals # dfs[2].rows[b].vals
    /\ Reconcile(<<AsFragment(df_agg, Concat(dfs).columns)>>) = df_agg

-----------------------------------------------------------------------------
(* Properties of loading *)

\* C3: a run whose files of one kind differ in their column sets is aborted by
\* the read loop, so whenever a reconciled series or a top-N table has been
\* built, all frames it was built from have the same columns.
C3_SchemaMismatchAborts ==
    pc \in {"vc_charts", "ref_chart"} =>
      \A i \in DOMAIN dfs : \A j \in DOMAIN dfs : dfs[i].columns = dfs[j].columns

-----------------------------------------------------------------------------
(* Properties of the top-N selection and its table *)

\* The rows the snapshot files held when they were read.
SnapshotRows == ConcatRows(loaded)

\* The snapshot times at which referrer r was observed.
ObservedAt(r) ==
    { loaded[i].snapshot_time : i \in { k \in DOMAIN loaded :
        \E j \in DOMAIN loaded[k].rows : loaded[k].rows[j]["referrer"] = r } }

\* The largest count_unique any snapshot row gives referrer r.
MaxOf(r) ==
    SetMax({ SnapshotRows[j]["count_unique"] :
             j \in { k \in DOMAIN SnapshotRows : SnapshotRows[k]["referrer"] = r } })

Selected == { top_n_rnames[k] : k \in DOMAIN top_n_rnames }

\* C4: the row index of the aligned table is the union of the snapshot times
\* at which any selected referrer was observed.
C4_IndexIsUnionOfTimestamps ==
    pc = "ref_chart" =>
      { df_top_cu.index[i] : i \in DOMAIN df_top_cu.index } =
        UNION { ObservedAt(r) : r \in Selected }

\* C5: the selection holds min(5, number of referrers) distinct referrers, in
\* descending order of their maximum count_unique, and no unselected referrer
\* has a larger maximum than a selected one.
C5_TopNByMaxDescending ==
    pc = "ref_chart" =>
      /\ Selected \subseteq referrers
      /\ Cardinality(Selected) = Len(top_n_rnames)
      /\ Len(top_n_rnames) =
           (IF Cardinality(referrers) < 5 THEN Cardinality(referrers) ELSE 5)
      /\ \A i \in DOMAIN top_n_rnames : \A j \in DOMAIN top_n_rnames :
            i < j => MaxOf(top_n_rnames[i]) >= MaxOf(top_n_rnames[j])
      /\ \A r \in referrers \ Selected : \A q \in Selected : MaxOf(r) <= MaxOf(q)

\* Six referrers were seen over two snapshots, five are selected and the sixth
\* has a smaller maximum than each of them.
C5_Witness ==
    /\ pc = "ref_chart"
    /\ Len(loaded) = 2
    /\ Cardinality(referrers) = 6
    /\ Len(top_n_rnames) = 5
    /\ \E r \in referrers \ Selected : \A q \in Selected : MaxOf(r) < MaxOf(q)

\* The position of the first snapshot row naming referrer r.
FirstSeen(r) ==
    CHOOSE j \in DOMAIN SnapshotRows :
      /\ SnapshotRows[j]["referrer"] = r
      /\ \A k \in 1..(j - 1) : SnapshotRows[k]["referrer"] # r

Position(r) == CHOOSE k \in DOMAIN top_n_rnames : top_n_rnames[k] = r

\* C6: of two referrers with the same maximum the one that comes first in the
\* input is ranked first: when the later one is selected, so is the earlier
\* one, ahead of it.
C6_TieBrokenByInputOrder ==
    pc = "ref_chart" =>
      \A a \in referrers : \A b \in Selected :
        (MaxOf(a) = MaxOf(b) /\ FirstSeen(a) < FirstSeen(b)) =>
          (a \in Selected /\ Position(a) < Position(b))

\* The cell the snapshots give for time t and referrer r: the count_unique of
\* the snapshot row when there is one, unset when there is none.
Observation(t, r) ==
    IF \E i \in DOMAIN loaded :
         loaded[i].snapshot_time = t /\
         \E k \in DOMAIN loaded[i].rows : loaded[i].rows[k]["referrer"] = r
      THEN LET i == CHOOSE n \in DOMAIN loaded : loaded[n].snapshot_time = t
               k == CHOOSE n \in DOMAIN loaded[i].rows :
                      loaded[i].rows[n]["referrer"] = r
           IN  Cell(loaded[i].rows[k]["count_unique"])
    ELSE NaN

\* C7: every cell of the aligned table, and every row of its long form, is
\* unset (and not 0) when no snapshot row exists for its time and referrer,
\* and holds the count_unique of that snapshot row when one exists; the long
\* form has one row per cell of the table.
C7_MissingCellsUnset ==
    pc = "ref_chart" =>
      /\ \A i \in DOMAIN df_top_cu.index : \A r \in Selected :
            /\ df_top_cu.cells[i][r] = Observation(df_top_cu.index[i], r)
            /\ Observation(df_top_cu.index[i], r) = NaN =>
                 df_top_cu.cells[i][r] # Cell(0)
      /\ Len(df_melted) = Len(df_top_cu.index) * Len(top_n_rnames)
      /\ \A m \in DOMAIN df_melted :
            /\ df_melted[m].referrer \in Selected
            /\ \E i \in DOMAIN df_top_cu.index : df_top_cu.index[i] = df_melted[m].time
            /\ df_melted[m].count_unique =
                 Observation(df_melted[m].time, df_melted[m].referrer)
            /\ Observation(df_melted[m].time, df_melted[m].referrer) = NaN =>
                 df_melted[m].count_unique # Cell(0)

\* A table of two rows and two columns with an unset cell and, in the same
\* row and in the same column, cells that are set.
C7_Witness ==
    /\ pc = "ref_chart"
    /\ Len(df_top_cu.index) = 2
    /\ Len(top_n_rnames) >= 2
    /\ \E i \in DOMAIN df_top_cu.index : \E j \in DOMAIN df_top_cu.index :
       \E r \in Selected : \E q \in Selected :
         /\ df_top_cu.cells[i][r] = NaN
         /\ IsSet(df_top_cu.cells[i][q])
         /\ IsSet(df_top_cu.cells[j][r])
    /\ \E m \in DOMAIN df_melted : df_melted[m].count_unique = NaN

-----------------------------------------------------------------------------
(* Properties of the run *)

\* Zero files were discovered for the kind the run is reading.
NoFilesDiscovered == pc \in {"vc_read", "ref_read"} /\ csvpaths = 0 /\ dfs = <<>>

\* C9: when zero files are discovered for a kind, the step that follows ends
\* the run with the error of pd.concat, no chart and no report section of that
\* kind is added, and no report file is written, then or afterwards.
C9_NoChartFromNoFiles ==
    [][ /\ NoFilesDiscovered =>
            /\ pc' = "dead"
            /\ err' = [error |-> "ValueError: No objects to concatenate", at |-> pc]
            /\ MD_REPORT' = <<>>
            /\ JS_FOOTER_LINES' = <<>>
            /\ report_file' = <<>>
        /\ pc = "dead" => (pc' = "dead" /\ report_file' = report_file) ]_vars

\* The run found no referrer snapshot after it had charted the fragments, and
\* ended in the error without a report file.
C9_Witness ==
    /\ pc = "dead"
    /\ err = [error |-> "ValueError: No objects to concatenate", at |-> "ref_read"]
    /\ report_file = <<>>

\* C10 as stated: after either analysis has run, the frames it loaded are what
\* they were when loading finished.
C10_InputsNotMutated ==
    pc \in {"vc_charts", "ref_chart"} => dfs = loaded

\* C10 as amended: the fragments are unchanged; a referrer snapshot keeps its
\* snapshot time, its rows and the values of its columns but gains the column
\* time, set on every row to the snapshot time.
C10_OnlyTimeColumnAdded ==
    /\ pc = "vc_charts" => dfs = loaded
    /\ pc = "ref_chart" =>
         /\ Len(dfs) = Len(loaded)
         /\ \A i \in DOMAIN loaded :
              /\ dfs[i].snapshot_time = loaded[i].snapshot_time
              /\ dfs[i].columns = loaded[i].columns \cup {"time"}
              /\ Len(dfs[i].rows) = Len(loaded[i].rows)
              /\ \A j \in DOMAIN loaded[i].rows :
                   /\ DOMAIN dfs[i].rows[j] = dfs[i].columns
                   /\ dfs[i].rows[j]["time"] = loaded[i].snapshot_time
                   /\ \A c \in loaded[i].columns \ {"time"} :
                        dfs[i].rows[j][c] = loaded[i].rows[j][c]

\* Two snapshots were analysed; both frames now differ from what was loaded.
C10_Witness ==
    /\ pc = "ref_chart"
    /\ Len(loaded) = 2
    /\ \A i \in DOMAIN loaded :
         /\ "time" \notin loaded[i].columns
         /\ "time" \in dfs[i].columns
         /\ dfs[i] # loaded[i]

-----------------------------------------------------------------------------
(* Properties of the per-referrer raw series *)

\* The rows the series of referrer r has to hold: for every snapshot row that
\* names r, that row with the time of its snapshot.
ExpectedRows(r) ==
    { [c \in loaded[i].columns \cup {"time"} |->
         IF c = "time" THEN loaded[i].snapshot_time ELSE loaded[i].rows[j][c]] :
      <<i, j>> \in { <<m, n>> \in UNION { {m} \X DOMAIN loaded[m].rows : m \in DOMAIN loaded } :
                     loaded[m].rows[n]["referrer"] = r } }

\* The number of snapshot rows that name r and tag to the row x.
Occurrences(r, x) ==
    Cardinality({ <<m, n>> \in UNION { {m} \X DOMAIN loaded[m].rows : m \in DOMAIN loaded } :
                    /\ loaded[m].rows[n]["referrer"] = r
                    /\ loaded[m].snapshot_time = x["time"]
                    /\ \A c \in loaded[m].columns \ {"time"} : loaded[m].rows[n][c] = x[c] })

\* C11: once the per-referrer series are built, their keys are exactly the
\* referrer names that occur in a snapshot, and the series of a referrer holds
\* one row for every snapshot row naming it, with that snapshot's time and that
\* row's values, in ascending order of time: no two snapshot rows are merged,
\* none is dropped and no row is added, whether or not values repeat.
C11_SeriesKeepsEverySnapshotRow ==
    pc = "ref_chart" =>
      /\ DOMAIN referrer_dfs = { SnapshotRows[j]["referrer"] : j \in DOMAIN SnapshotRows }
      /\ \A r \in DOMAIN referrer_dfs :
           LET rdf == referrer_dfs[r]
           IN  /\ \A k \in DOMAIN rdf : rdf[k] \in ExpectedRows(r)
               /\ \A x \in ExpectedRows(r) :
                    Cardinality({ k \in DOMAIN rdf : rdf[k] = x }) = Occurrences(r, x)
               /\ \A k \in DOMAIN rdf : \A l \in DOMAIN rdf :
                    k < l => rdf[k]["time"] <= rdf[l]["time"]

\* Two snapshots, discovered latest first, give one referrer the same values;
\* its series has both rows, the earlier snapshot's first.
C11_Witness ==
    /\ pc = "ref_chart"
    /\ Len(loaded) = 2
    /\ loaded[1].snapshot_time > loaded[2].snapshot_time
    /\ \E r \in DOMAIN referrer_dfs :
         /\ Len(referrer_dfs[r]) = 2
         /\ referrer_dfs[r][1]["time"] = loaded[2].snapshot_time
         /\ referrer_dfs[r][2]["time"] = loaded[1].snapshot_time
         /\ referrer_dfs[r][1]["count_unique"] = referrer_dfs[r][2]["count_unique"]
         /\ referrer_dfs[r][1]["count"] = referrer_dfs[r][2]["count"]

====
